---- MODULE Spec2Model ----
(***************************************************************************)
(* Model of the session-scoped conversation controller of the BCEL chatbot *)
(* (src/agent/agent.py, src/agent/react_graph.py, src/agent/tools.py).     *)
(*                                                                         *)
(* The Agent facade keeps a live session index (_user_sessions) and one    *)
(* lazily built graph/checkpointer pair.  The graph is a LangGraph state   *)
(* machine agent -> (tools -> agent)* -> END with an in-memory             *)
(* checkpointer; a checkpoint is written after the input is applied and    *)
(* after every node, and the latest written checkpoint of a thread is the  *)
(* one every later read sees.  The language model, the tools and the tool  *)
(* server are external: their answers and faults are nondeterministic.     *)
(***************************************************************************)
EXTENDS Integers, Sequences, FiniteSets, TLC

\* ------------------------------------------------------------------ bounds
MaxOps == 4        \* operations started plus tool calls requested in one behaviour
MaxCalls == 2      \* tool calls in one model response

Procs == {"t1", "t2"}             \* concurrently running asyncio tasks
\* every task can construct at most one checkpointer before the graph is set
MaxInit == Cardinality(Procs)
SessionIds == {"s1", "s2"}        \* session identifiers (thread_id)

\* ------------------------------------------------------------- vocabulary
None == "<None>"                  \* Python None / missing dict value
Unbound == "<unbound>"            \* a local variable that was never assigned
Token == "tok"                    \* a user id token

RegisteredTool == "search_products"
UnregisteredTool == "nonexistent_tool"
\* the tool set initialize_tools loads
tools == {RegisteredTool}
\* names the model may put in a tool call
ToolNames == {RegisteredTool, UnregisteredTool}

GreetingDefault == "greeting:default"
GreetingPersonal == "greeting:personal"
LoginText == "This action requires you to be signed in. Please log in and then try again."
NotFoundText(tool_name) == <<"Error: Tool not found.", tool_name>>
ExecErrorText(tool_name) == <<"Error executing tool", tool_name>>
Text(s) == <<s, "">>

\* ------------------------------------------------------------------ turns
HumanMessage(c) ==
    [role |-> "human", content |-> c, name |-> None, tool_call_id |-> 0,
     tool_calls |-> <<>>]

AIMessage(c, calls) ==
    [role |-> "ai", content |-> c, name |-> None, tool_call_id |-> 0,
     tool_calls |-> calls]

ToolMessage(n, c, id) ==
    [role |-> "tool", content |-> c, name |-> n, tool_call_id |-> id,
     tool_calls |-> <<>>]

\* BASE_HISTORY, a persisted history entry {type, data.content}
BASE_HISTORY == [type |-> "ai", content |-> Text(GreetingDefault)]

\* Agent.get_base_history
get_base_history(session) ==
    IF session.has_user_info
    THEN [type |-> "ai", content |-> Text(GreetingPersonal)]
    ELSE BASE_HISTORY

\* Agent.parse_messages: raises on an entry that is neither human nor ai
parse_ok(datas) ==
    \A i \in 1..Len(datas) : datas[i].type \in {"human", "ai"}

parse_messages(datas) ==
    [i \in 1..Len(datas) |->
        IF datas[i].type = "human"
        THEN HumanMessage(datas[i].content)
        ELSE AIMessage(datas[i].content, <<>>)]

\* a plain channel without reducer: the update replaces the value
add_messages_replace(left, right) == right

\* UserState.messages reducer (add_messages): every message handed to it here
\* is freshly constructed without an id, gets a new uuid and is appended
add_messages(left, right) == left \o right

\* ------------------------------------------------------------ checkpoints
\* kind: "absent" (thread never written), "empty" (empty_checkpoint() put),
\*       "written" (written through the graph)
\* next: the node a resumed run executes next; seen: last node that ran
NoCheckpoint == [kind |-> "absent", messages |-> <<>>, next |-> "end", seen |-> "none"]
empty_checkpoint == [kind |-> "empty", messages |-> <<>>, next |-> "end", seen |-> "none"]

\* tools.get_auth_tools
get_auth_tools == {}

\* Agent.get_user_id_token
get_user_id_token(user_sessions, uuid) == user_sessions[uuid]

\* react_graph.__is_logged_in: the getter is always configured by get_config;
\* None and the empty string are both falsy
is_logged_in(user_sessions, uuid) ==
    get_user_id_token(user_sessions, uuid) \notin {None, ""}

\* react_graph.agent_should_continue
RECURSIVE auth_gap(_, _, _)
auth_gap(calls, user_sessions, uuid) ==
    IF calls = <<>> THEN FALSE
    ELSE IF Head(calls).name \in get_auth_tools /\ ~is_logged_in(user_sessions, uuid)
         THEN TRUE
         ELSE auth_gap(Tail(calls), user_sessions, uuid)

agent_should_continue(messages, user_sessions, uuid) ==
    LET last_message == messages[Len(messages)] IN
    IF last_message.role # "ai" \/ Len(last_message.tool_calls) = 0 THEN "end"
    ELSE IF auth_gap(last_message.tool_calls, user_sessions, uuid) THEN "request_login"
    ELSE "continue"

\* react_graph.request_login_node
request_login_node == <<AIMessage(Text(LoginText), <<>>)>>

\* Agent.retrieve_trace: one entry per ToolMessage (tool_node never attaches
\* additional_kwargs, so the optional "sql" field is never present)
RECURSIVE retrieve_trace(_)
retrieve_trace(messages) ==
    IF messages = <<>> THEN <<>>
    ELSE IF Head(messages).role = "tool"
         THEN <<[tool_call_id |-> Head(messages).name,
                 results |-> Head(messages).content]>>
              \o retrieve_trace(Tail(messages))
         ELSE retrieve_trace(Tail(messages))

\* Python slice seq[i:], with a negative i counted from the end
PySliceFrom(seq, i) ==
    LET n == Len(seq)
        start == IF i < 0 THEN (IF n + i < 0 THEN 0 ELSE n + i)
                 ELSE (IF i > n THEN n ELSE i)
    IN SubSeq(seq, start + 1, n)

\* ---------------------------------------------------------------- the tool node
\* react_graph.tool_node, the loop over last_message.tool_calls.
\* outcomes[i] is what the external tool does for call i when it resolves:
\*   "ok"            the tool is prepared and returns a result
\*   "invoke_fault"  the tool is prepared, ainvoke raises
\*   "prepare_fault" __get_tool_to_run raises before tool_to_run is assigned
\* acc = [raised, tool_to_run, tool_messages]
ToolOutcomes == {"ok", "invoke_fault", "prepare_fault"}

RECURSIVE tool_loop(_, _, _, _)
tool_loop(calls, outcomes, i, acc) ==
    IF i > Len(calls) \/ acc.raised THEN acc
    ELSE
      LET tool_call == calls[i]
          tool_name == tool_call.name
          selected == tool_name \in tools
          assigned == selected /\ outcomes[i] # "prepare_fault"
          tool_to_run == IF assigned THEN tool_name ELSE acc.tool_to_run
          output == IF ~selected THEN NotFoundText(tool_name)
                    ELSE IF outcomes[i] = "ok" THEN Text("result")
                    ELSE ExecErrorText(tool_name)
      IN IF tool_to_run = Unbound
         THEN [acc EXCEPT !.raised = TRUE]      \* UnboundLocalError at tool_to_run.name
         ELSE tool_loop(calls, outcomes, i + 1,
                [raised |-> FALSE, tool_to_run |-> tool_to_run,
                 tool_messages |-> Append(acc.tool_messages,
                     ToolMessage(tool_to_run, output, tool_call.id))])

tool_node(messages, outcomes) ==
    LET last_message == messages[Len(messages)] IN
    IF last_message.role # "ai"
    THEN [raised |-> FALSE, tool_to_run |-> Unbound, tool_messages |-> <<>>]
    ELSE tool_loop(last_message.tool_calls, outcomes, 1,
            [raised |-> FALSE, tool_to_run |-> Unbound, tool_messages |-> <<>>])

\* ------------------------------------------------------------ the checkpointer
Route(r) == CASE r = "continue" -> "tools"
              [] r = "request_login" -> "request_login"
              [] OTHER -> "end"

\* CompiledGraph.update_state(config, {"messages": history}) without as_node:
\* the update is applied as the node that ran last in the thread (as the entry
\* point when none ran), through the reducer, and the node's edges give next
update_state(ck, history, user_sessions, uuid) ==
    LET as_node == IF ck.seen = "none" THEN "__start__" ELSE ck.seen
        msgs == add_messages(ck.messages, history)
    IN [kind |-> "written",
        messages |-> msgs,
        next |-> CASE as_node = "__start__" -> "agent"
                   [] as_node = "tools" -> "agent"
                   [] as_node = "request_login" -> "end"
                   [] OTHER -> Route(agent_should_continue(msgs, user_sessions, uuid)),
        seen |-> ck.seen]

\* the checkpoint a running cycle writes after a step
StepCheckpoint(msgs, next, seen) ==
    [kind |-> "written", messages |-> msgs, next |-> next, seen |-> seen]

\* ------------------------------------------------------- __get_tool_to_run
\* keys of auth token getters (auth services)
AuthKeys == {"my_google_service", "other_service"}

\* a loaded ToolboxTool: the auth services its core tool declares
\* (_required_authz_tokens, and one list per parameter in
\* _required_authn_params) and the getters attached to it
LoadedTools ==
    [name : {RegisteredTool},
     required_authz_tokens : SUBSET AuthKeys,
     required_authn_params : SUBSET (SUBSET AuthKeys \ {{}}),
     auth_token_getters : {{}}]

\* the RunnableConfig handed to tool_node: None or {} (falsy), without
\* "configurable", without "auth_token_getters", or with a getter dict
Configs ==
    [truthy : {FALSE}, has_configurable : {FALSE}, has_getters : {FALSE},
     auth_token_getters : {{}}]
    \cup
    [truthy : {TRUE}, has_configurable : {FALSE}, has_getters : {FALSE},
     auth_token_getters : {{}}]
    \cup
    [truthy : {TRUE}, has_configurable : {TRUE}, has_getters : {FALSE},
     auth_token_getters : {{}}]
    \cup
    [truthy : {TRUE}, has_configurable : {TRUE}, has_getters : {TRUE},
     auth_token_getters : SUBSET AuthKeys]

\* ToolboxTool.add_auth_token_getters: a copy of the tool with the getters added
add_auth_token_getters(tool, getters) ==
    [tool EXCEPT !.auth_token_getters = @ \cup getters]

\* every getter of the config attached, the filter left out
get_tool_to_run_unfiltered(tool, config) ==
    IF config.truthy /\ config.has_configurable /\ config.has_getters
       /\ config.auth_token_getters # {}
    THEN add_auth_token_getters(tool, config.auth_token_getters)
    ELSE tool

\* react_graph.__get_tool_to_run
get_tool_to_run(tool, config) ==
    IF config.truthy /\ config.has_configurable /\ config.has_getters
    THEN LET auth_token_getters == config.auth_token_getters IN
         IF auth_token_getters # {}
         THEN LET required_auth_keys ==
                      tool.required_authz_tokens \cup UNION tool.required_authn_params
                  filtered_getters ==
                      {k \in auth_token_getters : k \in required_auth_keys}
              IN IF filtered_getters # {}
                 THEN add_auth_token_getters(tool, filtered_getters)
                 ELSE tool
         ELSE tool
    ELSE tool

\* ---------------------------------------------------------------- the state
VARIABLES
    langgraph_app,    \* Agent._langgraph_app: 0 (None) or the checkpointer the graph is compiled with
    checkpointer,     \* Agent._checkpointer: 0 (None) or a checkpointer
    nInit,            \* MemorySaver/graph pairs constructed so far
    store,            \* store[k][sid]: latest checkpoint of thread sid in checkpointer k
    user_sessions,    \* Agent._user_sessions: sid -> token, None when the key is missing
    task,             \* task[p]: the coroutine run by asyncio task p
    used,             \* identifiers some call has named or uuid4 has returned
    epoch,            \* epoch[sid]: create/reset/signout calls that wrote sid so far
    last,             \* the last synchronous call that finished
    budget,           \* operations that may still be started
    prep              \* a call of __get_tool_to_run: its arguments and its result

vars == <<langgraph_app, checkpointer, nInit, store, user_sessions, task,
          used, epoch, last, budget, prep>>

\* session descriptors handed to user_session_create / user_session_reset
Histories ==
    { <<>>,
      <<BASE_HISTORY>>,
      <<[type |-> "system", content |-> Text("x")]>> }

\* uuid is only read when has_uuid, history only when has_history; user_info is
\* varied on the descriptors without history, where a greeting is seeded
Descriptors ==
    [has_uuid : {TRUE}, uuid : SessionIds, has_history : {TRUE}, history : Histories,
     has_user_info : {FALSE}]
    \cup
    [has_uuid : {TRUE}, uuid : SessionIds, has_history : {FALSE}, history : {<<>>},
     has_user_info : BOOLEAN]
    \cup
    [has_uuid : {FALSE}, uuid : {"s1"}, has_history : {TRUE}, history : Histories,
     has_user_info : {FALSE}]
    \cup
    [has_uuid : {FALSE}, uuid : {"s1"}, has_history : {FALSE}, history : {<<>>},
     has_user_info : BOOLEAN]

NoDescriptor ==
    [has_uuid |-> FALSE, uuid |-> "s1", has_history |-> FALSE, history |-> <<>>,
     has_user_info |-> FALSE]

\* user_prompt values of user_session_invoke
Prompts == {None, "", "q"}

IdleTask ==
    [op |-> "idle", pc |-> "idle", sid |-> None, cp |-> 0, session |-> NoDescriptor,
     existed |-> FALSE, seeded |-> FALSE, kinds |-> <<"absent", "absent">>,
     token |-> None, token_after |-> None, has_text |-> FALSE, app_input |-> None, idx |-> 0, pre |-> <<>>, msgs |-> <<>>,
     req |-> 0, outcomes |-> <<>>, fault |-> None, output |-> None, trace |-> <<>>,
     epoch |-> 0, overlap |-> None]

NoTool ==
    [name |-> None, required_authz_tokens |-> {}, required_authn_params |-> {},
     auth_token_getters |-> {}]

NoPrep ==
    [called |-> FALSE, tool |-> NoTool,
     config |-> [truthy |-> FALSE, has_configurable |-> FALSE, has_getters |-> FALSE,
                 auth_token_getters |-> {}],
     tool_to_run |-> NoTool]

NoLast ==
    [op |-> "none", sid |-> None, ok |-> TRUE, before |-> NoCheckpoint,
     after |-> NoCheckpoint, token |-> None, token_after |-> None]

Init ==
    /\ langgraph_app = 0
    /\ checkpointer = 0
    /\ nInit = 0
    /\ store = [k \in 1..MaxInit |-> [sid \in SessionIds |-> NoCheckpoint]]
    /\ user_sessions = [sid \in SessionIds |-> None]
    /\ task = [p \in Procs |-> IdleTask]
    /\ used = {}
    /\ epoch = [sid \in SessionIds |-> 0]
    /\ last = NoLast
    /\ budget = MaxOps
    /\ prep = NoPrep

Finished(p) == task[p].pc \in {"idle", "returned", "failed"}

\* a new coroutine runs in the first task that is not suspended
Free(p) == Finished(p) /\ (p = "t1" \/ ~Finished("t1"))

\* a task slot that is reused no longer is the cycle another task overlapped
Forget(p, t) == [q \in Procs |->
                    IF q = p THEN t
                    ELSE IF task[q].overlap = p THEN [task[q] EXCEPT !.overlap = None]
                    ELSE task[q]]

\* ------------------------------------------------------ user_session_create
\* identifiers never seen anywhere before
Unused == SessionIds \ used

\* identifiers are interchangeable: the first one a behaviour names is s1
Named(uuid) == uuid = "s1" \/ "s1" \in used

\* str(uuid.uuid4()): some unused identifier (which one is immaterial)
Fresh == IF Unused = {} THEN {} ELSE {CHOOSE sid \in Unused : TRUE}

\* the index entry written before the history is parsed
create_writes_early(before, history, user_sessions_, session_id) ==
    IF parse_ok(history)
    THEN [raised |-> FALSE,
          checkpoint |-> update_state(before, parse_messages(history), user_sessions_,
                                      session_id),
          token |-> ""]
    ELSE [raised |-> TRUE, checkpoint |-> before, token |-> ""]

\* lines 96-100: parse the history (which may raise), then write the
\* checkpoint, then the index entry
create_writes(before, history, user_sessions_, session_id) ==
    IF parse_ok(history)
    THEN [raised |-> FALSE,
          checkpoint |-> update_state(before, parse_messages(history), user_sessions_,
                                      session_id),
          token |-> ""]
    ELSE [raised |-> TRUE, checkpoint |-> before,
          token |-> get_user_id_token(user_sessions_, session_id)]

\* user_session_create from "Initializing session" on, run against graph k
\* for the identifier session_id
InitSession(p, session, k, session_id) ==
    LET history == IF session.has_history THEN session.history ELSE <<BASE_HISTORY>>
        before == store[k][session_id]
        w == create_writes(before, history, user_sessions, session_id)
        \* the caller's dict after lines 91-95: uuid and history are set
        filled == [session EXCEPT !.has_uuid = TRUE, !.uuid = session_id,
                                  !.has_history = TRUE, !.history = history]
        t == [IdleTask EXCEPT !.op = "create", !.sid = session_id, !.cp = k,
                              !.session = filled, !.pre = before.messages,
                              !.seeded = ~session.has_history,
                              !.existed = (before.kind # "absent"
                                           /\ user_sessions[session_id] # None),
                              !.kinds = <<before.kind, w.checkpoint.kind>>,
                              !.token = get_user_id_token(user_sessions, session_id),
                              !.token_after = w.token,
                              !.msgs = w.checkpoint.messages]
    IN /\ store' = [store EXCEPT ![k][session_id] = w.checkpoint]
       /\ user_sessions' = [user_sessions EXCEPT ![session_id] = w.token]
       /\ IF w.raised
          THEN /\ task' = Forget(p, [t EXCEPT !.pc = "failed", !.fault = "parse"])
               /\ UNCHANGED epoch
          ELSE /\ epoch' = [epoch EXCEPT ![session_id] = @ + 1]
               /\ task' = Forget(p, [t EXCEPT !.pc = "returned"])

\* the call starts; with no graph yet it suspends in initialize_tools()
CreateStart(p, session) ==
    /\ UNCHANGED prep
    /\ Free(p)
    /\ budget > 0
    /\ budget' = budget - 1
    /\ session.has_uuid => Named(session.uuid)
    /\ IF langgraph_app = 0
       THEN /\ task' = Forget(p, [IdleTask EXCEPT !.op = "create", !.pc = "init_tools",
                                                  !.session = session])
            /\ used' = IF session.has_uuid THEN used \cup {session.uuid} ELSE used
            /\ UNCHANGED <<langgraph_app, checkpointer, nInit, store, user_sessions,
                           epoch, last>>
       ELSE /\ \E session_id \in (IF session.has_uuid THEN {session.uuid} ELSE Fresh) :
                 /\ InitSession(p, session, langgraph_app, session_id)
                 /\ used' = used \cup {session_id}
            /\ UNCHANGED <<langgraph_app, checkpointer, nInit, last>>

\* initialize_tools() returned: build checkpointer and graph, then the session
CreateInit(p) ==
    /\ UNCHANGED prep
    /\ task[p].op = "create" /\ task[p].pc = "init_tools"
    /\ nInit < MaxInit
    /\ nInit' = nInit + 1
    /\ checkpointer' = nInit + 1
    /\ langgraph_app' = nInit + 1
    /\ \E session_id \in (IF task[p].session.has_uuid THEN {task[p].session.uuid} ELSE Fresh) :
          /\ InitSession(p, task[p].session, nInit + 1, session_id)
          /\ used' = used \cup {session_id}
    /\ UNCHANGED <<last, budget>>

\* ------------------------------------------------------ user_session_invoke
\* what the language model can answer: a final text, or 1..MaxCalls tool calls
\* with correlation ids unique within the response
CallSeqs ==
    UNION { [1..n -> ToolNames] : n \in 1..MaxCalls }

ToolCalls(names) == [i \in 1..Len(names) |-> [name |-> names[i], id |-> i]]

ModelResponses ==
    {AIMessage(Text("answer"), <<>>)}
    \cup {AIMessage(Text(""), ToolCalls(names)) : names \in CallSeqs}

\* a cycle of the same session and graph that is suspended when p starts
Overlapping(p, k, uuid) ==
    {q \in Procs \ {p} : /\ task[q].op = "invoke"
                         /\ task[q].pc \in {"agent", "tools"}
                         /\ task[q].sid = uuid /\ task[q].cp = k}

\* lines 119-132: the response built from final_state
Respond(t, messages) ==
    IF messages = <<>>
    THEN [t EXCEPT !.pc = "failed", !.fault = "IndexError", !.msgs = messages]
    ELSE [t EXCEPT !.pc = "returned", !.msgs = messages,
                   !.output = messages[Len(messages)].content,
                   !.trace = retrieve_trace(PySliceFrom(messages, t.idx))]

\* the user text turned into a human turn whatever it is
app_input_always(user_prompt) == <<HumanMessage(Text(user_prompt))>>

\* lines 109-113: None and the empty string are falsy and give no input
app_input(user_prompt) ==
    IF user_prompt \notin {None, ""}
    THEN <<HumanMessage(Text(user_prompt))>>
    ELSE None

\* lines 105-118 up to the first suspension of ainvoke: read the index, load
\* the checkpoint, apply the input and write the input checkpoint
InvokeStart(p, uuid, user_prompt) ==
    /\ UNCHANGED prep
    /\ Free(p)
    /\ budget > 0
    /\ budget' = budget - 1
    /\ Named(uuid)
    /\ used' = used \cup {uuid}
    /\ LET k == langgraph_app
           input == app_input(user_prompt)
           t0 == [IdleTask EXCEPT !.op = "invoke", !.sid = uuid, !.cp = k,
                                  !.has_text = (user_prompt \notin {None, ""}),
                                  !.app_input = input, !.epoch = epoch[uuid]]
       IN IF k = 0
          THEN /\ task' = Forget(p, [t0 EXCEPT !.pc = "failed", !.fault = "AttributeError"])
               /\ UNCHANGED store
          ELSE
            LET ck == store[k][uuid]
                others == Overlapping(p, k, uuid)
                t == [t0 EXCEPT !.idx = Len(ck.messages) - 1, !.pre = ck.messages,
                                !.msgs = ck.messages,
                                !.overlap = IF others = {} THEN None
                                            ELSE CHOOSE q \in others : TRUE]
            IN IF ck.kind = "absent"
               THEN \* get_state(config).values has no "messages"
                    /\ task' = Forget(p, [t0 EXCEPT !.pc = "failed", !.fault = "KeyError"])
                    /\ UNCHANGED store
               ELSE IF input # None
               THEN LET msgs == add_messages(ck.messages, input)
                    IN /\ task' = Forget(p, [t EXCEPT !.pc = "agent", !.msgs = msgs])
                       /\ store' = [store EXCEPT ![k][uuid] =
                                       StepCheckpoint(msgs, "agent", "__start__")]
               ELSE IF ck.kind = "empty"
               THEN \* nothing to resume and no input
                    /\ task' = Forget(p, [t EXCEPT !.pc = "failed", !.fault = "EmptyInputError"])
                    /\ UNCHANGED store
               ELSE IF ck.next = "end"
               THEN \* nothing pending: ainvoke returns the stored state
                    /\ task' = Forget(p, Respond(t, ck.messages))
                    /\ UNCHANGED store
               ELSE IF ck.next = "request_login"
               THEN LET msgs == add_messages(ck.messages, request_login_node)
                    IN /\ task' = Forget(p, Respond(t, msgs))
                       /\ store' = [store EXCEPT ![k][uuid] =
                                       StepCheckpoint(msgs, "end", "request_login")]
               ELSE /\ task' = Forget(p, [t EXCEPT !.pc = ck.next,
                                 !.req = IF ck.next = "tools" THEN Len(ck.messages) ELSE 0])
                    /\ UNCHANGED store
    /\ UNCHANGED <<langgraph_app, checkpointer, nInit, user_sessions, epoch, last>>

\* acall_model returned res; agent_should_continue routes; the step is checkpointed
AgentStep(p, res) ==
    /\ UNCHANGED prep
    /\ task[p].op = "invoke" /\ task[p].pc = "agent"
    /\ budget >= Len(res.tool_calls)
    /\ budget' = budget - Len(res.tool_calls)
    /\ LET t == task[p]
           msgs == add_messages(t.msgs, <<res>>)
           route == agent_should_continue(msgs, user_sessions, t.sid)
       IN CASE route = "end" ->
                 /\ task' = [task EXCEPT ![p] = Respond(t, msgs)]
                 /\ store' = [store EXCEPT ![t.cp][t.sid] = StepCheckpoint(msgs, "end", "agent")]
            [] route = "continue" ->
                 /\ task' = [task EXCEPT ![p].pc = "tools", ![p].msgs = msgs,
                                         ![p].req = Len(msgs)]
                 /\ store' = [store EXCEPT ![t.cp][t.sid] = StepCheckpoint(msgs, "tools", "agent")]
            [] OTHER ->
                 LET msgs2 == add_messages(msgs, request_login_node)
                 IN /\ task' = [task EXCEPT ![p] = Respond(t, msgs2)]
                    /\ store' = [store EXCEPT ![t.cp][t.sid] =
                                    StepCheckpoint(msgs2, "end", "request_login")]
    /\ UNCHANGED <<langgraph_app, checkpointer, nInit, user_sessions, used, epoch,
                   last>>

\* model_runnable.ainvoke raised: the fault leaves ainvoke, nothing is written
ModelFault(p) ==
    /\ UNCHANGED prep
    /\ task[p].op = "invoke" /\ task[p].pc = "agent"
    /\ task' = [task EXCEPT ![p].pc = "failed", ![p].fault = "model"]
    /\ UNCHANGED <<langgraph_app, checkpointer, nInit, store, user_sessions, used,
                   epoch, last, budget>>

\* tool_node ran over all requested calls; the step is checkpointed, or the
\* UnboundLocalError leaves ainvoke
ToolStep(p, outcomes) ==
    /\ UNCHANGED prep
    /\ task[p].op = "invoke" /\ task[p].pc = "tools"
    /\ Len(outcomes) = Len(task[p].msgs[task[p].req].tool_calls)
    /\ \A i \in 1..Len(outcomes) :
          task[p].msgs[task[p].req].tool_calls[i].name \notin tools => outcomes[i] = "ok"
    /\ LET t == task[p]
           r == tool_node(t.msgs, outcomes)
           msgs == add_messages(t.msgs, r.tool_messages)
       IN IF r.raised
          THEN /\ task' = [task EXCEPT ![p].pc = "failed", ![p].fault = "UnboundLocalError",
                                       ![p].outcomes = outcomes]
               /\ UNCHANGED store
          ELSE /\ task' = [task EXCEPT ![p].pc = "agent", ![p].msgs = msgs,
                                       ![p].outcomes = outcomes]
               /\ store' = [store EXCEPT ![t.cp][t.sid] = StepCheckpoint(msgs, "agent", "tools")]
    /\ UNCHANGED <<langgraph_app, checkpointer, nInit, user_sessions, used, epoch,
                   last, budget>>

\* ------------------------------------------------- the synchronous operations
Done(op, uuid, ok, store2, user_sessions2) ==
    [op |-> op, sid |-> uuid, ok |-> ok,
     before |-> IF checkpointer = 0 THEN NoCheckpoint ELSE store[checkpointer][uuid],
     after |-> IF checkpointer = 0 THEN NoCheckpoint ELSE store2[checkpointer][uuid],
     token |-> get_user_id_token(user_sessions, uuid),
     token_after |-> get_user_id_token(user_sessions2, uuid)]

\* what user_session_reset reads from the caller's dict
ResetDescriptors ==
    {d \in Descriptors : d.has_uuid /\ d.uuid = "s1" /\ (d.has_history => d.history = <<BASE_HISTORY>>)}

\* the greeting merged into the stored checkpoint, the overwrite left out
reset_checkpoint_merge(ck, history, user_sessions_, uuid) ==
    update_state(ck, history, user_sessions_, uuid)

\* lines 150-155: the stored checkpoint is replaced by an empty one, then the
\* greeting is written through the graph
reset_checkpoint(ck, history, user_sessions_, uuid) ==
    update_state(empty_checkpoint, history, user_sessions_, uuid)

\* Agent.user_session_reset
user_session_reset(session, uuid) ==
    /\ UNCHANGED prep
    /\ budget > 0
    /\ budget' = budget - 1
    /\ Named(uuid)
    /\ used' = used \cup {uuid}
    /\ IF ~session.has_history \/ checkpointer = 0
       THEN \* KeyError at del session["history"], or no checkpointer yet
            /\ UNCHANGED <<store, epoch>>
            /\ last' = Done("reset", uuid, FALSE, store, user_sessions)
       ELSE LET history == parse_messages(<<get_base_history(session)>>)
            IN /\ store' = [store EXCEPT ![checkpointer][uuid] =
                               reset_checkpoint(@, history, user_sessions, uuid)]
               /\ epoch' = [epoch EXCEPT ![uuid] = @ + 1]
               /\ last' = Done("reset", uuid, TRUE, store', user_sessions)
    /\ UNCHANGED <<langgraph_app, checkpointer, nInit, user_sessions, task>>

\* Agent.set_user_session_header
set_user_session_header(uuid, user_id_token) ==
    /\ UNCHANGED prep
    /\ budget > 0
    /\ budget' = budget - 1
    /\ Named(uuid)
    /\ used' = used \cup {uuid}
    /\ user_sessions' = [user_sessions EXCEPT ![uuid] = user_id_token]
    /\ last' = Done("set", uuid, TRUE, store, user_sessions')
    /\ UNCHANGED <<langgraph_app, checkpointer, nInit, store, task, epoch>>

\* Agent.user_session_signout
user_session_signout(uuid) ==
    /\ UNCHANGED prep
    /\ budget > 0
    /\ budget' = budget - 1
    /\ Named(uuid)
    /\ used' = used \cup {uuid}
    /\ IF checkpointer = 0
       THEN /\ UNCHANGED <<store, epoch, user_sessions>>
            /\ last' = Done("signout", uuid, FALSE, store, user_sessions)
       ELSE /\ store' = [store EXCEPT ![checkpointer][uuid] = empty_checkpoint]
            /\ epoch' = [epoch EXCEPT ![uuid] = @ + 1]
            /\ IF user_sessions[uuid] = None
               THEN \* KeyError at del self._user_sessions[uuid]
                    /\ UNCHANGED user_sessions
                    /\ last' = Done("signout", uuid, FALSE, store', user_sessions)
               ELSE /\ user_sessions' = [user_sessions EXCEPT ![uuid] = None]
                    /\ last' = Done("signout", uuid, TRUE, store', user_sessions')
    /\ UNCHANGED <<langgraph_app, checkpointer, nInit, task>>

\* ------------------------------------------------------------ specification
Next ==
    \/ \E p \in Procs, session \in Descriptors : CreateStart(p, session)
    \/ \E p \in Procs : CreateInit(p)
    \/ \E p \in Procs, uuid \in SessionIds, user_prompt \in Prompts :
          InvokeStart(p, uuid, user_prompt)
    \/ \E p \in Procs, res \in ModelResponses : AgentStep(p, res)
    \/ \E p \in Procs : ModelFault(p)
    \/ \E p \in Procs : \E n \in 1..MaxCalls : \E outcomes \in [1..n -> ToolOutcomes] :
          ToolStep(p, outcomes)
    \/ \E session \in ResetDescriptors, uuid \in SessionIds : user_session_reset(session, uuid)
    \/ \E uuid \in SessionIds : set_user_session_header(uuid, Token)
    \/ \E uuid \in SessionIds : user_session_signout(uuid)

Spec == Init /\ [][Next]_vars

\* __get_tool_to_run on its own: every loaded tool with every config
PrepInit ==
    /\ langgraph_app = 0
    /\ checkpointer = 0
    /\ nInit = 0
    /\ store = [k \in 1..MaxInit |-> [sid \in SessionIds |-> NoCheckpoint]]
    /\ user_sessions = [sid \in SessionIds |-> None]
    /\ task = [p \in Procs |-> IdleTask]
    /\ used = {}
    /\ epoch = [sid \in SessionIds |-> 0]
    /\ last = NoLast
    /\ budget = MaxOps
    /\ \E tool \in LoadedTools, config \in Configs :
          prep = [NoPrep EXCEPT !.tool = tool, !.config = config]

Prepare ==
    /\ ~prep.called
    /\ prep' = [prep EXCEPT !.called = TRUE,
                            !.tool_to_run = get_tool_to_run(prep.tool, prep.config)]
    /\ UNCHANGED <<langgraph_app, checkpointer, nInit, store, user_sessions, task,
                   used, epoch, last, budget>>

PrepNext == Prepare

PrepSpec == PrepInit /\ [][PrepNext]_vars

\* One caller, one session: every call runs to completion before the next
\* one starts (task t2 is never used) and all calls name session s1.
OneCaller ==
    /\ task["t2"] = IdleTask
    /\ task["t1"].sid # "s2"
    /\ last.sid # "s2"

SeqNext ==
    \/ \E session \in Descriptors : CreateStart("t1", session) /\ OneCaller'
    \/ CreateInit("t1") /\ OneCaller'
    \/ \E user_prompt \in Prompts : InvokeStart("t1", "s1", user_prompt) /\ OneCaller'
    \/ \E res \in ModelResponses : AgentStep("t1", res) /\ OneCaller'
    \/ ModelFault("t1") /\ OneCaller'
    \/ \E n \in 1..MaxCalls : \E outcomes \in [1..n -> ToolOutcomes] :
          ToolStep("t1", outcomes) /\ OneCaller'
    \/ \E session \in ResetDescriptors : user_session_reset(session, "s1") /\ OneCaller'
    \/ set_user_session_header("s1", Token) /\ OneCaller'
    \/ user_session_signout("s1") /\ OneCaller'

SeqSpec == Init /\ [][SeqNext]_vars

TypeOK ==
    /\ langgraph_app \in 0..MaxInit
    /\ checkpointer = langgraph_app
    /\ nInit \in 0..MaxInit
    /\ budget \in 0..MaxOps
    /\ \A sid \in SessionIds : user_sessions[sid] \in {None, "", Token}

\* ----------------------------------------------------------------- helpers
Greeting(g) == AIMessage(Text(g), <<>>)

\* the turns a cycle added to the turn list it started from
NewTurns(t) == SubSeq(t.msgs, Len(t.pre) + 1, Len(t.msgs))

HasRole(messages, role) == \E i \in 1..Len(messages) : messages[i].role = role

\* the calls the tool node of task p was last handed
Requested(p) == task[p].msgs[task[p].req].tool_calls

\* the tool node of task p has been entered and left (normally or not)
ToolNodeLeft(p) ==
    /\ task[p].op = "invoke"
    /\ task[p].req > 0
    /\ task[p].pc # "tools"

\* nothing but task p touched its session since p started
Undisturbed(p) ==
    /\ task[p].epoch = epoch[task[p].sid]
    /\ \A q \in Procs \ {p} : ~(task[q].op = "invoke" /\ task[q].sid = task[p].sid)

\* the checkpoint of a session the Agent serves: the one in its current
\* checkpointer
Visible(sid) == IF checkpointer = 0 THEN NoCheckpoint ELSE store[checkpointer][sid]

\* the position and the data of the coroutine of task p
Progress(t) ==
    <<t.op, t.pc, t.sid, t.cp, t.session, t.existed, t.kinds, t.token, t.token_after,
      t.pre, t.msgs, t.req, t.fault>>

\* the tasks whose coroutine took the step (none: the step is a synchronous
\* call, recorded in last)
Acting == {p \in Procs : Progress(task'[p]) # Progress(task[p])}

IsPrefix(a, b) == Len(a) <= Len(b) /\ SubSeq(b, 1, Len(a)) = a

\* ------------------------------------------------------------------ claims

\* C1: a second user_session_create for an existing session identifier with
\* the history the session already holds leaves the stored turn sequence as
\* it was (nothing is duplicated or appended).
C1_CreateIdempotent ==
    \A p \in Procs :
        (/\ task[p].op = "create" /\ task[p].pc = "returned"
         /\ task[p].existed
         /\ task[p].pre = parse_messages(task[p].session.history))
        => task[p].msgs = task[p].pre

\* C2: every requested call to a tool that is not registered yields a
\* tool-result turn "Error: Tool '<name>' not found." for that call and the
\* tool node does not fail, at every position of the call in the request
\* (runs in which preparing a resolved tool faulted are left aside).
C2_UnknownToolAbsorbed ==
    \A p \in Procs :
        (/\ ToolNodeLeft(p)
         /\ \A i \in 1..Len(task[p].outcomes) : task[p].outcomes[i] # "prepare_fault")
        => \A i \in 1..Len(Requested(p)) :
              Requested(p)[i].name \notin tools
              => /\ task[p].fault # "UnboundLocalError"
                 /\ Len(task[p].msgs) >= task[p].req + i
                 /\ task[p].msgs[task[p].req + i].role = "tool"
                 /\ task[p].msgs[task[p].req + i].content = NotFoundText(Requested(p)[i].name)

\* C3: the trace an invoke returns has exactly the entries of the tool-result
\* turns appended during that cycle, none for a turn that was in the
\* checkpoint before, whatever the role of the last pre-cycle turn.
C3_TraceOnlyNewTurns ==
    \A p \in Procs :
        (/\ task[p].op = "invoke" /\ task[p].pc = "returned"
         /\ task[p].pre # <<>>
         /\ Undisturbed(p))
        => task[p].trace = retrieve_trace(NewTurns(task[p]))

\* C4: when the model invocation faults, the stored checkpoint of the session
\* is the one from before the cycle: neither the user turn nor any turn
\* produced earlier in the cycle is persisted.
C4_ModelFaultNoMutation ==
    \A p \in Procs :
        (/\ task[p].op = "invoke" /\ task[p].pc = "failed" /\ task[p].fault = "model"
         /\ Undisturbed(p))
        => store[task[p].cp][task[p].sid].messages = task[p].pre

\* C5: two overlapping invokes on one session leave the checkpoint that
\* running them one after the other in issue order leaves: the turns of the
\* first, then the turns of the second, nothing lost or interleaved.
C5_OverlapSerialized ==
    \A p, q \in Procs :
        (/\ task[q].op = "invoke" /\ task[q].pc = "returned" /\ task[q].overlap = p
         /\ task[p].op = "invoke" /\ task[p].pc = "returned"
         /\ task[p].epoch = epoch[task[p].sid]
         /\ task[q].epoch = epoch[task[q].sid])
        => store[task[p].cp][task[p].sid].messages
             = task[p].pre \o NewTurns(task[p])
                 \o SubSeq(task[q].msgs, Len(task[q].pre) + 1, Len(task[q].msgs))

\* C6: checkpointer and graph are constructed at most once per Agent, also
\* when several user_session_create calls start before the first finished.
C6_InitOnce == nInit <= 1

\* C7: after user_session_reset(session, id) returned, get_user_id_token(id)
\* yields no token (None, or the empty placeholder user_session_create
\* stores), whatever credential was set before.
C7_ResetClearsCredential ==
    (last.op = "reset" /\ last.ok) => last.token_after \in {None, ""}

\* C8: after user_session_reset on a session with any prior history the
\* stored turn sequence is exactly one greeting turn (full replace).
C8_ResetLeavesOneGreeting ==
    (last.op = "reset" /\ last.ok)
    => last.after.messages \in {<<Greeting(GreetingDefault)>>, <<Greeting(GreetingPersonal)>>}

C8_Witness ==
    /\ last.op = "reset" /\ last.ok
    /\ HasRole(last.before.messages, "human")
    /\ HasRole(last.before.messages, "tool")
    /\ Len(last.before.messages) >= 4

\* C9: right after user_session_create returns, the stored turn sequence of
\* the session is non-empty, for every descriptor the call accepts.
C9_CreateNonEmpty ==
    \A p \in Procs :
        (task[p].op = "create" /\ task[p].pc = "returned") => task[p].msgs # <<>>

\* C11: a runtime fault raised while preparing or invoking a resolved tool
\* does not fail the cycle: the tool node appends for that call one
\* tool-result turn carrying the fault text, goes on with the remaining
\* calls and hands back to the model (requests naming only registered tools).
C11_ToolFaultAbsorbed ==
    \A p \in Procs :
        (/\ ToolNodeLeft(p)
         /\ \A i \in 1..Len(Requested(p)) : Requested(p)[i].name \in tools)
        => /\ task[p].fault # "UnboundLocalError"
           /\ \A i \in 1..Len(Requested(p)) :
                 task[p].outcomes[i] # "ok"
                 => /\ Len(task[p].msgs) >= task[p].req + i
                    /\ task[p].msgs[task[p].req + i].role = "tool"
                    /\ task[p].msgs[task[p].req + i].content
                         = ExecErrorText(Requested(p)[i].name)

\* C12: user_session_signout(id) does not raise for a session identifier
\* that holds no credential, here one whose checkpoint an earlier signout
\* already emptied.
C12_SignoutSafe ==
    (/\ last.op = "signout"
     /\ last.before.kind = "empty"
     /\ last.token \in {None, ""})
    => last.ok

\* C13: user_session_create for a session identifier that already exists
\* leaves the credential of the session as it was: get_user_id_token(id)
\* yields after the call what it yielded before.
C13_CreateKeepsCredential ==
    \A p \in Procs :
        (task[p].op = "create" /\ task[p].pc = "returned" /\ task[p].existed)
        => task[p].token_after = task[p].token

\* C14: once user_session_signout(id) has emptied the checkpoint of id and the
\* index holds no entry for it, a reset, set_user_session_header or signout
\* naming id fails, leaves id out of the live session index and writes no
\* turns to its checkpoint.
C14_SignedOutRejected ==
    (/\ last.op \in {"reset", "set", "signout"}
     /\ last.before.kind = "empty"
     /\ last.token = None)
    => /\ ~last.ok
       /\ last.token_after = None
       /\ last.after.messages = <<>>

\* C15: user_session_create with a history entry whose type is neither human
\* nor ai raises and writes nothing: the checkpoint of the session (none for
\* a new session) and its entry in the live session index are what they were
\* before the call.
C15_BadHistoryNoWrite ==
    \A p \in Procs :
        (task[p].op = "create" /\ task[p].pc = "failed" /\ task[p].fault = "parse")
        => /\ task[p].kinds[2] = task[p].kinds[1]
           /\ task[p].msgs = task[p].pre
           /\ task[p].token_after = task[p].token

C15_Witness ==
    \E p \in Procs :
        /\ task[p].op = "create" /\ task[p].pc = "failed" /\ task[p].fault = "parse"
        /\ ~parse_ok(task[p].session.history)
        /\ task[p].kinds = <<"absent", "absent">>
        /\ task[p].token = None
        /\ store[task[p].cp][task[p].sid].kind = "absent"
        /\ user_sessions[task[p].sid] = None

\* C16: user_session_create for a new session with a descriptor without
\* history seeds one greeting turn: the personalized greeting when the
\* descriptor carries user_info, the default greeting otherwise.
C16_SeededGreeting ==
    \A p \in Procs :
        (/\ task[p].op = "create" /\ task[p].pc = "returned"
         /\ task[p].seeded
         /\ task[p].kinds[1] = "absent")
        => task[p].msgs = <<Greeting(IF task[p].session.has_user_info
                                     THEN GreetingPersonal ELSE GreetingDefault)>>

\* C17: a user_session_invoke without user text (None or the empty string)
\* adds no human turn: every turn the cycle adds to the turns it loaded, the
\* turns every checkpoint it writes holds, is an assistant or a tool-result
\* turn.
C17_NoTextNoHumanTurn ==
    \A p \in Procs :
        (task[p].op = "invoke" /\ ~task[p].has_text)
        => \A i \in (Len(task[p].pre) + 1)..Len(task[p].msgs) :
              task[p].msgs[i].role \in {"ai", "tool"}

C17_Witness ==
    \E p \in Procs :
        /\ task[p].op = "invoke" /\ task[p].pc = "returned" /\ ~task[p].has_text
        /\ Undisturbed(p)
        /\ HasRole(NewTurns(task[p]), "tool")
        /\ HasRole(NewTurns(task[p]), "ai")
        /\ store[task[p].cp][task[p].sid].messages = task[p].msgs

\* C18: a step of an operation on one session identifier changes neither the
\* checkpoint the Agent serves nor the credential of any other session
\* identifier, also when the coroutines of different sessions interleave.
C18_OtherSessionsUntouched ==
    [][\A sid \in SessionIds :
          (Visible(sid)' # Visible(sid) \/ user_sessions'[sid] # user_sessions[sid])
          => \/ (Acting = {} /\ last'.sid = sid)
             \/ \E p \in Acting : task'[p].sid = sid]_vars

\* C19: after a call of user_session_signout(id), get_user_id_token(id)
\* yields None, whatever token was set for id before.
C19_SignoutClearsCredential ==
    last.op = "signout" => last.token_after = None

\* C20: a pass of the tool node over an assistant turn requesting n calls
\* appends exactly n tool-result turns, the i-th carrying the id of the i-th
\* requested call, for every mix of registered, unregistered and faulting
\* calls.
C20_OneResultPerCall ==
    \A p \in Procs :
        ToolNodeLeft(p)
        => LET n == Len(Requested(p))
               req == task[p].req
           IN /\ Len(task[p].msgs) >= req + n
              /\ \A i \in 1..n :
                    /\ task[p].msgs[req + i].role = "tool"
                    /\ task[p].msgs[req + i].tool_call_id = Requested(p)[i].id
              /\ Len(task[p].msgs) > req + n => task[p].msgs[req + n + 1].role # "tool"

\* C21: a user_session_reset or user_session_signout that completes while an
\* invoke cycle of the same session is suspended is not undone by the cycle:
\* once the cycle has returned too, the checkpoint holds none of the turns
\* the session had before the reset/signout (here: the human turn the reset
\* or signout saw and removed is not back).
C21_ResetNotUndone ==
    \A p \in Procs :
        (/\ task[p].op = "invoke" /\ task[p].pc = "returned" /\ task[p].has_text
         /\ last.op \in {"reset", "signout"}
         /\ last.sid = task[p].sid
         /\ epoch[task[p].sid] = task[p].epoch + 1
         /\ HasRole(last.before.messages, "human")
         /\ ~HasRole(last.after.messages, "human")
         /\ \A q \in Procs \ {p} :
               ~(task[q].op \in {"invoke", "create"} /\ task[q].sid = task[p].sid))
        => ~HasRole(store[task[p].cp][task[p].sid].messages, "human")

\* C22: every tool-result turn the tool node appends carries the name of the
\* tool requested in the call it answers; a call to an unregistered tool
\* after a resolved one is not recorded under the earlier tool's name.
C22_ResultNamesRequestedTool ==
    \A p \in Procs :
        (ToolNodeLeft(p) /\ task[p].fault # "UnboundLocalError")
        => \A i \in 1..Len(Requested(p)) :
              /\ Len(task[p].msgs) >= task[p].req + i
              /\ task[p].msgs[task[p].req + i].name = Requested(p)[i].name

\* C23: the turn history is append-only within an invoke cycle: whenever an
\* invoke returns, the turns the session held when the cycle started are a
\* prefix of the turns it returns and of the turns the checkpoint holds.
C23_AppendOnly ==
    [][\A p \in Acting :
          (task'[p].op = "invoke" /\ task'[p].pc = "returned")
          => /\ IsPrefix(task'[p].pre, task'[p].msgs)
             /\ IsPrefix(task'[p].pre, store'[task'[p].cp][task'[p].sid].messages)]_vars

C23_Witness ==
    \E p \in Procs :
        /\ task[p].op = "invoke" /\ task[p].pc = "returned"
        /\ HasRole(task[p].pre, "human")
        /\ Len(task[p].pre) >= 3
        /\ HasRole(NewTurns(task[p]), "human")
        /\ HasRole(NewTurns(task[p]), "ai")
        /\ store[task[p].cp][task[p].sid].messages = task[p].msgs

\* C24: the getters attached to a tool before it is invoked are exactly the
\* getters of the session's config whose keys the tool declares as required
\* (authorization tokens or parameter authentication); a tool with no
\* matching requirement is run as it was loaded, with no getter attached.
C24_LeastPrivilege ==
    prep.called
    => LET offered == IF prep.config.truthy /\ prep.config.has_configurable
                         /\ prep.config.has_getters
                      THEN prep.config.auth_token_getters ELSE {}
           declared == {k \in AuthKeys :
                          \/ k \in prep.tool.required_authz_tokens
                          \/ \E keys \in prep.tool.required_authn_params : k \in keys}
       IN /\ prep.tool_to_run.auth_token_getters = offered \cap declared
          /\ offered \cap declared = {} => prep.tool_to_run = prep.tool
          /\ prep.tool_to_run.name = prep.tool.name

C24_Witness ==
    /\ prep.called
    /\ prep.config.auth_token_getters = AuthKeys
    /\ prep.tool.required_authz_tokens = {}
    /\ prep.tool.required_authn_params = {{"my_google_service"}}
    /\ prep.tool_to_run.auth_token_getters = {"my_google_service"}
====
